---------------------------- MODULE Spec2Model ----------------------------
(***************************************************************************)
(* Model of src/src/App.svelte: the DNS-over-HTTPS lookup page.            *)
(*                                                                         *)
(* JavaScript strings are modelled as sequences of UTF-16 code units       *)
(* (naturals), so that trimming, lower-casing, substring search, regular   *)
(* expression matching and hex decoding are computed, character by         *)
(* character, as the code computes them.  Map keys, record types and       *)
(* provider ids, which the code only compares and copies, are TLA+ strings.*)
(***************************************************************************)
EXTENDS Integers, Sequences, FiniteSets, TLC

VARIABLES
    mounted,   \* onMount has run (the popstate listener is installed)
    domain,    \* let domain   (line 23): text of the input box
    provider,  \* let provider (line 24): value of the select box
    loading,   \* let loading  (line 25)
    error,     \* let error    (line 26)
    results,   \* let results  (line 27): Null or a result object
    hist,      \* the browser's session history: the state of each entry
    cur,       \* index in hist of the current entry
    calls,     \* the handleLookup invocations that passed validation
    stored,    \* the invocation that wrote results, as it ended (Null if none)
    caaIn,     \* parseCAA harness: the argument
    caaOut,    \* parseCAA harness: what the call produced
    normIn     \* normalisation harness: the domain d of the experiment

vars == <<mounted, domain, provider, loading, error, results, hist, cur,
          calls, stored, caaIn, caaOut, normIn>>

-----------------------------------------------------------------------------
(* Bounds of the model *)

\* handleLookup invocations that pass validation, per run of the page
MaxCalls == 2

\* bytes in the hex body of a generated parseCAA argument
MaxBytes == 5

\* code units in a generated domain of the normalisation experiment
MaxDomLen == 2

-----------------------------------------------------------------------------
(* JavaScript strings *)

\* s.substr(start) with 0 <= start (0-based)
SubstrFrom(s, start) ==
    IF start >= Len(s) THEN <<>> ELSE SubSeq(s, start + 1, Len(s))

\* s.substr(start, length) with 0 <= start (0-based); a length that is not
\* positive (NaN is converted to 0) gives the empty string
Substr(s, start, length) ==
    IF length <= 0 \/ start >= Len(s) THEN <<>>
    ELSE SubSeq(s, start + 1, IF start + length > Len(s) THEN Len(s) ELSE start + length)

\* WhiteSpace and LineTerminator code units: what String.prototype.trim
\* strips and what \s matches
IsWhiteSpace(c) ==
    c \in {9, 10, 11, 12, 13, 32, 160, 5760, 8232, 8233, 8239, 8287, 12288, 65279}
    \/ c \in 8192..8202

\* \d
IsDigit(c) == c \in 48..57

\* [\da-fA-F]
IsHexDigit(c) == IsDigit(c) \/ c \in 65..70 \/ c \in 97..102

\* [\da-fA-F\s]
IsHexOrSpace(c) == IsHexDigit(c) \/ IsWhiteSpace(c)

\* String.prototype.trim
Trim(s) ==
    LET keep == {i \in 1..Len(s) : ~IsWhiteSpace(s[i])}
    IN  IF keep = {} THEN <<>>
        ELSE SubSeq(s, CHOOSE i \in keep : \A j \in keep : i <= j,
                       CHOOSE i \in keep : \A j \in keep : i >= j)

\* String.prototype.toLowerCase on one code unit (ASCII letters; the other
\* code units of the model's alphabets have no lower-case form)
LowerUnit(c) == IF c \in 65..90 THEN c + 32 ELSE c

\* String.prototype.toUpperCase on one code unit (ASCII letters)
UpperUnit(c) == IF c \in 97..122 THEN c - 32 ELSE c

ToLowerCase(s) == [i \in 1..Len(s) |-> LowerUnit(s[i])]

ToUpperCase(s) == [i \in 1..Len(s) |-> UpperUnit(s[i])]

\* s.startsWith(p)
StartsWith(s, p) == Len(s) >= Len(p) /\ SubSeq(s, 1, Len(p)) = p

\* s.includes(p)
Includes(s, p) ==
    \E i \in 0..(Len(s) - Len(p)) : SubSeq(s, i + 1, i + Len(p)) = p

\* the decimal digits of a natural number
RECURSIVE Decimal(_)
Decimal(n) == IF n < 10 THEN <<48 + n>> ELSE Decimal(n \div 10) \o <<48 + (n % 10)>>

\* parseInt's result on a string with no leading digit
NaN == -1

\* `${n}` for the numbers parseInt(_, 16) produces
NumberToString(n) == IF n = NaN THEN <<78, 97, 78>> ELSE Decimal(n)

\* HexValue that knows the lower-case letters only
HexValueNoUpper(c) ==
    IF IsDigit(c) THEN c - 48 ELSE IF c \in 97..102 THEN c - 87 ELSE 0

\* the value of one hex digit
HexValue(c) ==
    IF IsDigit(c) THEN c - 48 ELSE IF c \in 97..102 THEN c - 87 ELSE c - 55

\* parseInt(s, 16) on a string of hex digits: NaN on the empty string
RECURSIVE ParseInt16(_)
ParseInt16(s) ==
    IF s = <<>> THEN NaN
    ELSE IF Len(s) = 1 THEN HexValue(s[1])
    ELSE 16 * ParseInt16(SubSeq(s, 1, Len(s) - 1)) + HexValue(s[Len(s)])

-----------------------------------------------------------------------------
(* parseCAA, lines 31-64 *)

\* whether c is in a character class of the regular expression: \s, \d or
\* [\da-fA-F\s]
InClass(c, class) ==
    IF class = "s" THEN IsWhiteSpace(c)
    ELSE IF class = "d" THEN IsDigit(c)
    ELSE IsHexOrSpace(c)

\* the first index j >= i of s whose character is not in the class
\* (Len(s)+1 if none): where a greedy run of the class from i ends
RunEnd(s, i, class) ==
    CHOOSE j \in i..(Len(s) + 1) :
        /\ \A k \in i..(j - 1) : InClass(s[k], class)
        /\ j = Len(s) + 1 \/ ~InClass(s[j], class)

\* An attempt of /\\#\s+\d+\s+([\da-fA-F\s]+)/ at index i of s: <<group 1>>
\* if it matches there, <<>> if not.  \s+ and \d+ are greedy and match
\* disjoint classes, so the only backtracking that can succeed gives the last
\* white space of the second \s+ to the group.
MatchAt(s, i) ==
    IF ~(i + 1 <= Len(s) /\ s[i] = 92 /\ s[i + 1] = 35) THEN <<>>
    ELSE LET j == RunEnd(s, i + 2, "s")
             k == RunEnd(s, j, "d")
             m == RunEnd(s, k, "s")
         IN  IF j = i + 2 \/ k = j \/ m = k THEN <<>>
             ELSE IF m <= Len(s) /\ IsHexDigit(s[m])
                  THEN <<SubSeq(s, m, RunEnd(s, m, "hs") - 1)>>
             ELSE IF m - k >= 2 THEN <<SubSeq(s, m - 1, m - 1)>>
             ELSE <<>>

\* hexData.match(/\\#\s+\d+\s+([\da-fA-F\s]+)/): the leftmost match, as
\* <<match[1]>>, or <<>> for null
RegexMatch(s) ==
    LET hits == {i \in 1..Len(s) : MatchAt(s, i) # <<>>}
    IN  IF hits = {} THEN <<>>
        ELSE MatchAt(s, CHOOSE i \in hits : \A j \in hits : i <= j)

\* match[1].replace(/\s+/g, '')
StripSpaces(s) == SelectSeq(s, LAMBDA c : ~IsWhiteSpace(c))

\* x.match(/.{2}/g) on a string of hex digits: the pairs, left to right (a
\* last odd digit is dropped); <<>> stands for null, returned when there is
\* no pair
HexPairs(x) == [i \in 1..(Len(x) \div 2) |-> SubSeq(x, 2 * i - 1, 2 * i)]

\* pairs.map(byte => String.fromCharCode(parseInt(byte, 16))).join('')
DecodeAscii(pairs) == [i \in 1..Len(pairs) |-> ParseInt16(pairs[i])]

parseCAA(hexData) ==
    LET match == RegexMatch(hexData)
    IN  IF match = <<>> THEN hexData
        ELSE LET hexBytes  == StripSpaces(match[1])
                 flags     == ParseInt16(Substr(hexBytes, 0, 2))
                 tagLength == ParseInt16(Substr(hexBytes, 2, 2))
                 tagHex    == Substr(hexBytes, 4, tagLength * 2)
                 tagPairs  == HexPairs(tagHex)
                 valueHex  == SubstrFrom(hexBytes, IF tagLength = NaN THEN 0
                                                   ELSE 4 + tagLength * 2)
                 valPairs  == HexPairs(valueHex)
             IN  \* null.map(...) throws a TypeError, which the catch turns
                 \* into the unchanged input
                 IF tagPairs = <<>> \/ valPairs = <<>> THEN hexData
                 ELSE NumberToString(flags) \o <<32>> \o DecodeAscii(tagPairs)
                      \o <<32, 34>> \o DecodeAscii(valPairs) \o <<34>>

-----------------------------------------------------------------------------
(* Configuration, lines 5-21 *)

\* RECORD_TYPES.usual
usual == <<"SOA", "A", "AAAA", "TXT", "MX", "NS", "CAA">>

\* RECORD_TYPES.emailSecurity; name is a string the code concatenates
emailSecurity ==
    << [type |-> "TXT",  name |-> <<95, 100, 109, 97, 114, 99>>,
        label |-> "_dmarc (TXT)"],
       [type |-> "A",    name |-> <<109, 116, 97, 45, 115, 116, 115>>,
        label |-> "mta-sts (A)"],
       [type |-> "AAAA", name |-> <<109, 116, 97, 45, 115, 116, 115>>,
        label |-> "mta-sts (AAAA)"],
       [type |-> "TXT",  name |-> <<95, 109, 116, 97, 45, 115, 116, 115>>,
        label |-> "_mta-sts (TXT)"],
       [type |-> "TXT",  name |-> <<95, 115, 109, 116, 112, 46, 95, 116, 108, 115>>,
        label |-> "_smtp._tls (TXT)"],
       [type |-> "TXT",
        name |-> <<103, 111, 111, 103, 108, 101, 46, 95, 100, 111, 109, 97, 105,
                   110, 107, 101, 121>>,
        label |-> "google._domainkey (TXT)"] >>

PROVIDERS ==
    [google     |-> "https://dns.google/resolve",
     cloudflare |-> "https://cloudflare-dns.com/dns-query"]

\* PROVIDERS[p] as JavaScript evaluates it: an own property, a member
\* inherited from Object.prototype (a function, which is truthy), or undefined
ProviderEntry(p) ==
    IF p \in DOMAIN PROVIDERS THEN PROVIDERS[p]
    ELSE IF p \in {"constructor", "toString", "valueOf", "hasOwnProperty"}
         THEN "function"
    ELSE "undefined"

\* the queries of one lookup
NQueries == Len(usual) + Len(emailSecurity)

-----------------------------------------------------------------------------
(* Values *)

\* results = null
Null == [null |-> TRUE]

\* an object with no keys: {}
EmptyMap == <<>>

\* obj[key] = value
Put(obj, key, value) ==
    [k \in (DOMAIN obj) \cup {key} |-> IF k = key THEN value ELSE obj[k]]

\* history states: null (an entry no pushState made), {} (handleClear) and
\* { domain, provider } (handleLookup)
NullState == [kind |-> "null"]

EmptyState == [kind |-> "empty"]

LookupState(d, p) == [kind |-> "lookup", domain |-> d, provider |-> p]

\* window.history.pushState(state, '', url): the entries after the current
\* one are dropped and the new entry becomes the current one
PushState(h, c, state) == Append(SubSeq(h, 1, c), state)

-----------------------------------------------------------------------------
(* The resolvers: the DNS-over-HTTPS transport the page talks to *)

\* an Answer record; the fields the page reads are TTL and data
Rec(name, ttl, data) == [name |-> name, TTL |-> ttl, data |-> data]

\* The DNS data of the model's world.  The domain "a" has three TXT records
\* (other text, an SPF record, an SPF record in capitals), two CAA records
\* (one in the generic hex encoding \# 4 00 01 69 78, one readable) and a
\* DMARC record; the domain "b" has one TXT record, which is no SPF record.
\* Every other name has no records.
ZoneData(name, type) ==
    IF name = <<97>> /\ type = "TXT" THEN
        << Rec(name, 300, <<120>>),
           Rec(name, 300, <<118, 61, 115, 112, 102, 49, 32, 45, 97, 108, 108>>),
           Rec(name, 60,  <<34, 86, 61, 83, 80, 70, 49, 34>>) >>
    ELSE IF name = <<97>> /\ type = "CAA" THEN
        << Rec(name, 300, <<92, 35, 32, 52, 32, 48, 48, 32, 48, 49, 32, 54, 57,
                            32, 55, 56>>),
           Rec(name, 300, <<48, 32, 105, 32, 34, 120, 34>>) >>
    ELSE IF name = <<95, 100, 109, 97, 114, 99, 46, 97>> /\ type = "TXT" THEN
        << Rec(name, 300, <<118, 61, 68, 77, 65, 82, 67, 49>>) >>
    ELSE IF name = <<98>> /\ type = "TXT" THEN
        << Rec(name, 300, <<120>>) >>
    ELSE <<>>

\* What fetch and response.json() can produce for a request: a network
\* error, a non-2xx status, a body that is no JSON, JSON with no Answer
\* member, JSON with an empty Answer, JSON with the name's records
NetworkError == [kind |-> "network", ok |-> FALSE, hasAnswer |-> FALSE, Answer |-> <<>>]

HttpError == [kind |-> "response", ok |-> FALSE, hasAnswer |-> FALSE, Answer |-> <<>>]

BadJson == [kind |-> "response", ok |-> TRUE, hasAnswer |-> FALSE, Answer |-> <<>>,
            malformed |-> TRUE]

Json(hasAnswer, answer) ==
    [kind |-> "response", ok |-> TRUE, hasAnswer |-> hasAnswer, Answer |-> answer,
     malformed |-> FALSE]

Responses(q) ==
    {NetworkError, HttpError, BadJson, Json(FALSE, <<>>), Json(TRUE, <<>>),
     Json(TRUE, ZoneData(q.name, q.type))}

-----------------------------------------------------------------------------
(* queryDNS, lines 67-81 *)

\* The outcome of queryDNS(name, type, providerUrl) when the transport
\* produces resp: threw, or the parsed JSON.  new URL(providerUrl) throws
\* when providerUrl is no URL, before any request is made.
queryDNS(providerUrl, resp) ==
    IF providerUrl \notin {PROVIDERS[p] : p \in DOMAIN PROVIDERS}
        THEN [threw |-> TRUE, hasAnswer |-> FALSE, Answer |-> <<>>]
    ELSE IF resp.kind = "network"
        THEN [threw |-> TRUE, hasAnswer |-> FALSE, Answer |-> <<>>]
    ELSE IF ~resp.ok
        THEN [threw |-> TRUE, hasAnswer |-> FALSE, Answer |-> <<>>]
    ELSE IF resp.malformed
        THEN [threw |-> TRUE, hasAnswer |-> FALSE, Answer |-> <<>>]
    ELSE [threw |-> FALSE, hasAnswer |-> resp.hasAnswer, Answer |-> resp.Answer]

-----------------------------------------------------------------------------
(* handleLookup, lines 84-162 *)

\* IsBlank without the trim: !domain
IsBlankUntrimmed(dom) == dom = <<>>

\* !domain.trim(), line 85
IsBlank(dom) == Trim(dom) = <<>>

\* .replace(/^https?:\/\//, ''), line 91
StripScheme(s) ==
    IF StartsWith(s, <<104, 116, 116, 112, 58, 47, 47>>) THEN SubstrFrom(s, 7)
    ELSE IF StartsWith(s, <<104, 116, 116, 112, 115, 58, 47, 47>>) THEN SubstrFrom(s, 8)
    ELSE s

\* .replace(/\/$/, ''), line 91
StripTrailingSlash(s) ==
    IF Len(s) > 0 /\ s[Len(s)] = 47 THEN SubSeq(s, 1, Len(s) - 1) ELSE s

\* CleanDomain without toLowerCase
CleanDomainKeepsCase(dom) == StripTrailingSlash(StripScheme(Trim(dom)))

\* cleanDomain, line 91
CleanDomain(dom) == StripTrailingSlash(StripScheme(ToLowerCase(Trim(dom))))

\* the arguments of the k-th queryDNS call of a lookup, lines 105 and 133-136
QueryOf(k, cleanDomain, providerUrl) ==
    IF k <= Len(usual)
    THEN [name |-> cleanDomain, type |-> usual[k], url |-> providerUrl]
    ELSE LET record == emailSecurity[k - Len(usual)]
         IN  [name |-> record.name \o <<46>> \o cleanDomain,
              type |-> record.type, url |-> providerUrl]

\* the label under which the k-th query's answer is stored
LabelOf(k) ==
    IF k <= Len(usual) THEN usual[k] ELSE emailSecurity[k - Len(usual)].label

\* An invocation suspended on its k-th query.  sent lists the queryDNS
\* calls made so far; thrown says that an exception has reached the outer
\* try; answered and stdAllFailed record what the transport did (the labels
\* answered with records, and whether every standard query so far failed).
Issue(call, k) ==
    [call EXCEPT !.pc = k,
                 !.sent = Append(@, QueryOf(k, call.cleanDomain, call.providerUrl))]

\* lines 91-105: the invocation up to its first await
NewCall(dom, prov) ==
    Issue([pc |-> 0,
           cleanDomain |-> CleanDomain(dom),
           providerUrl |-> ProviderEntry(prov),
           usualResults |-> EmptyMap,
           emailSecurityResults |-> EmptyMap,
           sent |-> <<>>,
           thrown |-> FALSE,
           answered |-> {},
           stdAllFailed |-> TRUE], 1)

\* OnQueryError with no inner try: the exception leaves the loop
OnQueryErrorRethrows(call) == [call EXCEPT !.thrown = TRUE]

\* the inner catch, lines 116-118 and 140-142: the error is logged and the
\* loop goes on
OnQueryError(call) == call

\* whether line 108 decodes the records: the type is CAA and the provider
\* variable, as it is when the answer arrives, is cloudflare
DecodesCAA(type, prov) == type = "CAA" /\ prov = "cloudflare"

\* lines 109-112
MapParseCAA(answer) ==
    [i \in 1..Len(answer) |-> [answer[i] EXCEPT !.data = parseCAA(answer[i].data)]]

\* HasRecords without the length test: result.Answer
HasAnswerMember(r) == r.hasAnswer

\* result.Answer && result.Answer.length > 0, lines 106 and 137
HasRecords(r) == r.hasAnswer /\ Len(r.Answer) > 0

\* lines 104-118: the body of the first loop once the query has settled
AfterUsual(call, type, r, prov) ==
    IF r.threw THEN OnQueryError(call)
    ELSE IF HasRecords(r)
         THEN [call EXCEPT !.usualResults =
                  Put(@, type, IF DecodesCAA(type, prov) THEN MapParseCAA(r.Answer)
                               ELSE r.Answer)]
    ELSE call

\* IsSpfRecord without toLowerCase
IsSpfRecordCaseSensitive(record) ==
    /\ record.data # <<>>
    /\ Includes(record.data, <<118, 61, 115, 112, 102, 49>>)

\* record.data && record.data.toLowerCase().includes('v=spf1'), line 124
IsSpfRecord(record) ==
    /\ record.data # <<>>
    /\ Includes(ToLowerCase(record.data), <<118, 61, 115, 112, 102, 49>>)

\* lines 122-129
ExtractSPF(call) ==
    IF "TXT" \in DOMAIN call.usualResults
    THEN LET spfRecords == SelectSeq(call.usualResults["TXT"], IsSpfRecord)
         IN  IF Len(spfRecords) > 0
             THEN [call EXCEPT !.emailSecurityResults = Put(@, "SPF (TXT)", spfRecords)]
             ELSE call
    ELSE call

\* AfterProbe storing under the record type, as the first loop does
AfterProbeByType(call, record, r) ==
    IF r.threw THEN call
    ELSE IF r.hasAnswer /\ Len(r.Answer) > 0
         THEN [call EXCEPT !.emailSecurityResults = Put(@, record.type, r.Answer)]
    ELSE call

\* lines 135-142: the body of the second loop once the query has settled
AfterProbe(call, record, r) ==
    IF r.threw THEN OnQueryError(call)
    ELSE IF HasRecords(r)
         THEN [call EXCEPT !.emailSecurityResults = Put(@, record.label, r.Answer)]
    ELSE call

\* line 147
ProviderLabel(prov) == IF prov = "google" THEN "dns.google" ELSE "1.1.1.1"

\* lines 145-150
ResultOf(call, prov) ==
    [domain |-> call.cleanDomain,
     provider |-> ProviderLabel(prov),
     usual |-> call.usualResults,
     emailSecurity |-> call.emailSecurityResults]

\* whether the k-th query of the invocation succeeded: a request was made
\* and resp, a 2xx response with a JSON body, came back
Succeeded(call, resp) ==
    /\ call.providerUrl \in {PROVIDERS[p] : p \in DOMAIN PROVIDERS}
    /\ resp.kind = "response"
    /\ resp.ok
    /\ ~resp.malformed

\* what the transport did, kept for the properties below
Observe(call, original, k, resp) ==
    [call EXCEPT
        !.answered = IF Succeeded(original, resp) /\ resp.hasAnswer /\ resp.Answer # <<>>
                     THEN @ \cup {LabelOf(k)} ELSE @,
        !.stdAllFailed = @ /\ (k > Len(usual) \/ ~Succeeded(original, resp))]

\* an invocation that has returned: its local variables are gone
Returned ==
    [pc |-> NQueries + 1, cleanDomain |-> <<>>, providerUrl |-> "",
     usualResults |-> EmptyMap, emailSecurityResults |-> EmptyMap, sent |-> <<>>,
     thrown |-> FALSE, answered |-> {}, stdAllFailed |-> FALSE]

\* handleLookup from its entry to its first await, called with the values
\* domain and provider have at the call; lines 84-105
HandleLookup(dom, prov) ==
    IF IsBlank(dom)
    THEN /\ error' = "Please enter a domain name"
         /\ UNCHANGED <<loading, results, stored, calls>>
    ELSE /\ Len(calls) < MaxCalls
         /\ loading' = TRUE
         /\ error' = ""
         /\ results' = Null
         /\ stored' = Null
         /\ calls' = Append(calls, NewCall(dom, prov))

\* Invocation i resumes with the outcome of its outstanding query and runs
\* to its next await or to its end; lines 105-161.  r is what queryDNS gives,
\* c1 the invocation after the loop body, c2 after the SPF extraction that
\* follows the first loop.
Resume(i, resp) ==
    /\ mounted
    /\ calls[i].pc \in 1..NQueries
    /\ \E r \in {queryDNS(calls[i].providerUrl, resp)} :
       \E c1 \in {IF calls[i].pc <= Len(usual)
                  THEN AfterUsual(calls[i], usual[calls[i].pc], r, provider)
                  ELSE AfterProbe(calls[i], emailSecurity[calls[i].pc - Len(usual)], r)} :
       \E c2 \in {IF calls[i].pc = Len(usual) /\ ~c1.thrown THEN ExtractSPF(c1) ELSE c1} :
       \E c3 \in {Observe(c2, calls[i], calls[i].pc, resp)} :
          IF c3.thrown
          THEN \* the outer catch and finally, lines 157-161
               /\ calls' = [calls EXCEPT ![i] = Returned]
               /\ error' = "Error"
               /\ loading' = FALSE
               /\ UNCHANGED <<results, stored, hist, cur>>
          ELSE IF c3.pc < NQueries
          THEN /\ calls' = [calls EXCEPT ![i] = Issue(c3, c3.pc + 1)]
               /\ UNCHANGED <<loading, error, results, stored, hist, cur>>
          ELSE \* lines 145-155 and the finally
               /\ calls' = [calls EXCEPT ![i] = Returned]
               /\ results' = ResultOf(c3, provider)
               /\ stored' = [c3 EXCEPT !.pc = NQueries + 1]
               /\ hist' = PushState(hist, cur, LookupState(c3.cleanDomain, provider))
               /\ cur' = cur + 1
               /\ loading' = FALSE
               /\ UNCHANGED error
    /\ UNCHANGED <<mounted, domain, provider, caaIn, caaOut, normIn>>

-----------------------------------------------------------------------------
(* The page's events *)

\* what the user can type into the input box: a blank, and " A/" (the box
\* is empty when the page starts)
DomainInputs == {<<32>>, <<32, 65, 47>>}

\* the domain parameter of the URL the page is opened with (<<>>: none)
UrlDomains == {<<>>, <<32>>, <<32, 65, 47>>}

\* the provider parameter of the URL the page is opened with ("": none)
UrlProviders == {"", "google", "cloudflare", "bogus", "constructor"}

\* The session histories the page can be loaded into: a fresh one, or, after
\* a reload, one that holds an entry an earlier lookup pushed
InitHistories ==
    { <<NullState>>,
      <<NullState, LookupState(<<98>>, "google")>> }

\* bind:value on the input, line 264 (the input is disabled while loading)
SetDomain(d) ==
    /\ mounted /\ ~loading
    /\ d # domain
    /\ domain' = d
    /\ UNCHANGED <<mounted, provider, loading, error, results, stored, hist, cur,
                   calls, caaIn, caaOut, normIn>>

\* bind:value on the select, line 258 (the select is disabled while loading)
SetProvider(p) ==
    /\ mounted /\ ~loading
    /\ p # provider
    /\ provider' = p
    /\ UNCHANGED <<mounted, domain, loading, error, results, stored, hist, cur,
                   calls, caaIn, caaOut, normIn>>

\* on:click={handleLookup}, line 268 (the button is disabled while loading)
ClickQuery ==
    /\ mounted /\ ~loading
    /\ HandleLookup(domain, provider)
    /\ UNCHANGED <<mounted, domain, provider, hist, cur, caaIn, caaOut, normIn>>

\* handleKeyPress, lines 202-206, on the input (disabled while loading)
KeyPress(key) ==
    /\ mounted /\ ~loading
    /\ IF key = "Enter" THEN HandleLookup(domain, provider)
       ELSE UNCHANGED <<loading, error, results, stored, calls>>
    /\ UNCHANGED <<mounted, domain, provider, hist, cur, caaIn, caaOut, normIn>>

\* handleClear, lines 209-215 (the button is disabled while loading)
ClickClear ==
    /\ mounted /\ ~loading
    /\ Len(hist) <= MaxCalls
    /\ domain' = <<>>
    /\ results' = Null
    /\ stored' = Null
    /\ error' = ""
    /\ hist' = PushState(hist, cur, EmptyState)
    /\ cur' = cur + 1
    /\ UNCHANGED <<mounted, provider, loading, calls, caaIn, caaOut, normIn>>

\* handlePopState, lines 165-176: the user moves to entry j of the history
PopState(j) ==
    /\ mounted
    /\ j \in 1..Len(hist) /\ j # cur
    /\ cur' = j
    /\ IF hist[j].kind = "lookup" /\ hist[j].domain # <<>>
       THEN /\ domain' = hist[j].domain
            /\ provider' = IF hist[j].provider # "" THEN hist[j].provider ELSE "google"
            /\ HandleLookup(domain', provider')
       ELSE /\ results' = Null
            /\ stored' = Null
            /\ domain' = <<>>
            /\ provider' = "google"
            /\ UNCHANGED <<loading, error, calls>>
    /\ UNCHANGED <<mounted, hist, caaIn, caaOut, normIn>>

\* onMount, lines 179-194.  The URL is the current entry's: the one
\* handleLookup pushed (line 154), or, for an entry no pushState made, any.
Mount(urlDomain, urlProvider) ==
    /\ ~mounted
    /\ hist[cur].kind = "lookup" =>
          urlDomain = hist[cur].domain /\ urlProvider = hist[cur].provider
    /\ mounted' = TRUE
    /\ IF urlDomain # <<>>
       THEN /\ domain' = urlDomain
            /\ provider' = IF urlProvider # "" /\ ProviderEntry(urlProvider) # "undefined"
                           THEN urlProvider ELSE "google"
            /\ HandleLookup(domain', provider')
       ELSE UNCHANGED <<domain, provider, loading, error, results, stored, calls>>
    /\ UNCHANGED <<hist, cur, caaIn, caaOut, normIn>>

\* the invocations suspended on a query, and the query each waits for
Suspended == {i \in 1..Len(calls) : calls[i].pc <= NQueries}

Outstanding(i) == calls[i].sent[calls[i].pc]

Init ==
    /\ mounted = FALSE
    /\ domain = <<>>
    /\ provider = "google"
    /\ loading = FALSE
    /\ error = ""
    /\ results = Null
    /\ hist \in InitHistories
    /\ cur \in 1..Len(hist)
    /\ calls = <<>>
    /\ stored = Null
    /\ caaIn = <<>>
    /\ caaOut = <<>>
    /\ normIn = <<>>

Next ==
    \/ \E d \in UrlDomains, p \in UrlProviders : Mount(d, p)
    \/ \E d \in DomainInputs : SetDomain(d)
    \/ \E p \in DOMAIN PROVIDERS : SetProvider(p)
    \/ ClickQuery
    \/ \E key \in {"Enter", "a"} : KeyPress(key)
    \/ ClickClear
    \/ \E j \in 1..Len(hist) : PopState(j)
    \/ \E i \in Suspended : \E resp \in Responses(Outstanding(i)) : Resume(i, resp)

Spec == Init /\ [][Next]_vars

-----------------------------------------------------------------------------
(* parseCAA on generated arguments *)

\* the byte values of the generated bodies: 0, 1 and 2 (also tag lengths)
\* and 'o' (0x6f, whose second hex digit has a case)
CAAByteValues == {0, 1, 2, 111}

RECURSIVE ByteSeqs(_)
ByteSeqs(n) ==
    IF n = 0 THEN {<<>>}
    ELSE LET shorter == ByteSeqs(n - 1)
         IN  shorter \cup {Append(b, v) : b \in {x \in shorter : Len(x) = n - 1},
                                          v \in CAAByteValues}

\* An argument is described by how it is written: what precedes the hex
\* body ("generic": \# <len> and a space; "none": nothing; "junk": a letter,
\* then the generic prefix; "tight": \#<len> with no space after \#), the
\* length written, the bytes, the case of the hex letters, what separates
\* two bytes, and what follows the last byte.
CAAArg(prefix, len, bytes, upper, sep, tail) ==
    [prefix |-> prefix, len |-> len, bytes |-> bytes, upper |-> upper,
     sep |-> sep, tail |-> tail]

\* flags 0, tag "issue", value "testca.com"
IssueBytes ==
    <<0, 5, 105, 115, 115, 117, 101, 116, 101, 115, 116, 99, 97, 46, 99, 111, 109>>

CAAInputs ==
    {CAAArg("generic", Len(b), b, u, sp, t) :
        b \in ByteSeqs(MaxBytes), u \in BOOLEAN, sp \in {<<>>, <<32>>},
        t \in {<<>>, <<55>>, <<34, 120, 34>>}}
    \cup {CAAArg(pre, Len(b), b, FALSE, <<>>, <<>>) :
        pre \in {"none", "junk", "tight"}, b \in ByteSeqs(MaxBytes)}
    \cup {CAAArg("generic", 17, IssueBytes, u, sp, <<>>) :
        u \in BOOLEAN, sp \in {<<>>, <<32>>, <<32, 10>>}}
    \cup {\* \# 19 0005697373756574657374"ca.com"
          CAAArg("generic", 19, SubSeq(IssueBytes, 1, 11), FALSE, <<>>,
                 <<34, 99, 97, 46, 99, 111, 109, 34>>),
          \* flags 128, no tag, value "x"
          CAAArg("generic", 3, <<128, 0, 120>>, FALSE, <<>>, <<>>),
          \* flags 0, tag "issue", no value
          CAAArg("generic", 7, SubSeq(IssueBytes, 1, 7), FALSE, <<32>>, <<>>)}

\* one hex digit, as a code unit
HexDigit(d, upper) == IF d < 10 THEN 48 + d ELSE IF upper THEN 55 + d ELSE 87 + d

RECURSIVE HexBody(_, _, _)
HexBody(bytes, upper, sep) ==
    IF bytes = <<>> THEN <<>>
    ELSE <<HexDigit(Head(bytes) \div 16, upper), HexDigit(Head(bytes) % 16, upper)>>
         \o (IF Len(bytes) > 1 THEN sep ELSE <<>>)
         \o HexBody(Tail(bytes), upper, sep)

\* the string an argument stands for
CAAText(arg) ==
    (IF arg.prefix = "none" THEN <<>>
     ELSE IF arg.prefix = "junk" THEN <<120, 92, 35, 32>> \o Decimal(arg.len) \o <<32>>
     ELSE IF arg.prefix = "tight" THEN <<92, 35>> \o Decimal(arg.len) \o <<32>>
     ELSE <<92, 35, 32>> \o Decimal(arg.len) \o <<32>>)
    \o HexBody(arg.bytes, arg.upper, arg.sep) \o arg.tail

\* the page before onMount, with nothing typed
Pristine ==
    /\ mounted = FALSE
    /\ domain = <<>>
    /\ provider = "google"
    /\ loading = FALSE
    /\ error = ""
    /\ results = Null
    /\ hist = <<NullState>>
    /\ cur = 1
    /\ calls = <<>>
    /\ stored = Null

InitCAA ==
    /\ Pristine
    /\ caaIn \in CAAInputs
    /\ caaOut = <<>>
    /\ normIn = <<>>

\* parseCAA(record.data), line 111, on the generated argument
CallParseCAA ==
    /\ caaIn # <<>>
    /\ caaOut = <<>>
    /\ caaOut' = <<parseCAA(CAAText(caaIn))>>
    /\ UNCHANGED <<mounted, domain, provider, loading, error, results, hist, cur,
                   calls, stored, caaIn, normIn>>

NextCAA == CallParseCAA

SpecCAA == InitCAA /\ [][NextCAA]_vars

-----------------------------------------------------------------------------
(* Two lookups in a row: of a domain d, then of "  " + d.toUpperCase() + "/ " *)

RECURSIVE Strings(_, _)
Strings(alphabet, n) ==
    IF n = 0 THEN {<<>>}
    ELSE LET shorter == Strings(alphabet, n - 1)
         IN  shorter \cup {Append(x, c) : x \in {y \in shorter : Len(y) = n - 1},
                                          c \in alphabet}

\* the domains d: strings of ' ', '/', 'A' and 'a', alone or after a scheme
\* (http://, https:// or HTTP://)
NormDomains ==
    {pre \o x : pre \in {<<>>, <<104, 116, 116, 112, 58, 47, 47>>,
                         <<104, 116, 116, 112, 115, 58, 47, 47>>,
                         <<72, 84, 84, 80, 58, 47, 47>>},
                x \in Strings({32, 47, 65, 97}, MaxDomLen)}

\* "  " + d.toUpperCase() + "/ "
Wrap(d) == <<32, 32>> \o ToUpperCase(d) \o <<47, 32>>

InitNorm ==
    /\ mounted = TRUE
    /\ normIn \in NormDomains
    /\ domain = normIn
    /\ provider \in DOMAIN PROVIDERS
    /\ loading = FALSE
    /\ error = ""
    /\ results = Null
    /\ hist = <<NullState>>
    /\ cur = 1
    /\ calls = <<>>
    /\ stored = Null
    /\ caaIn = <<>>
    /\ caaOut = <<>>

\* the first lookup, of d
FirstQuery == domain = normIn /\ calls = <<>> /\ error = "" /\ ClickQuery

\* once the first lookup has settled, the user types the second input
Retype ==
    /\ domain = normIn
    /\ \/ calls = <<>> /\ error # ""
       \/ calls # <<>> /\ Suspended = {}
    /\ SetDomain(Wrap(normIn))

\* the second lookup (the first one made an invocation unless d is blank)
SecondQuery ==
    /\ domain = Wrap(normIn)
    /\ Len(calls) = (IF IsBlank(normIn) THEN 0 ELSE 1)
    /\ ClickQuery

NextNorm ==
    \/ FirstQuery
    \/ Retype
    \/ SecondQuery
    \/ \E i \in Suspended : \E resp \in Responses(Outstanding(i)) : Resume(i, resp)

SpecNorm == InitNorm /\ [][NextNorm]_vars

-----------------------------------------------------------------------------
(* Properties *)

\* a string of white space only (the empty string included)
AllWhiteSpace(d) == \A n \in 1..Len(d) : IsWhiteSpace(d[n])

\* the step calls handleLookup: the Query button, Enter in the input, a
\* popstate event whose state names a domain, or onMount with a domain
\* parameter in the URL.  The call reads the value domain has after the step.
CallsHandleLookup ==
    \/ ClickQuery
    \/ KeyPress("Enter")
    \/ \E j \in 1..Len(hist) :
          PopState(j) /\ hist[j].kind = "lookup" /\ hist[j].domain # <<>>
    \/ \E d \in UrlDomains \ {<<>>}, p \in UrlProviders : Mount(d, p)

\* the queries a lookup of clean domain c at endpoint u makes, in order: the
\* seven standard types for c itself, then the six probes for <prefix>.c
ExpectedQueries(c, u) ==
    << [name |-> c, type |-> "SOA", url |-> u],
       [name |-> c, type |-> "A", url |-> u],
       [name |-> c, type |-> "AAAA", url |-> u],
       [name |-> c, type |-> "TXT", url |-> u],
       [name |-> c, type |-> "MX", url |-> u],
       [name |-> c, type |-> "NS", url |-> u],
       [name |-> c, type |-> "CAA", url |-> u],
       [name |-> <<95, 100, 109, 97, 114, 99, 46>> \o c, type |-> "TXT", url |-> u],
       [name |-> <<109, 116, 97, 45, 115, 116, 115, 46>> \o c, type |-> "A", url |-> u],
       [name |-> <<109, 116, 97, 45, 115, 116, 115, 46>> \o c, type |-> "AAAA", url |-> u],
       [name |-> <<95, 109, 116, 97, 45, 115, 116, 115, 46>> \o c, type |-> "TXT",
        url |-> u],
       [name |-> <<95, 115, 109, 116, 112, 46, 95, 116, 108, 115, 46>> \o c,
        type |-> "TXT", url |-> u],
       [name |-> <<103, 111, 111, 103, 108, 101, 46, 95, 100, 111, 109, 97, 105, 110,
                   107, 101, 121, 46>> \o c, type |-> "TXT", url |-> u] >>

\* C1: a handleLookup call whose domain is empty after trimming sets the
\* validation error and does nothing else: no invocation starts (so no
\* queryDNS call is made), and loading and results keep their values.
C1_BlankDomainIsRejected ==
    [][ (CallsHandleLookup /\ AllWhiteSpace(domain'))
          => /\ error' = "Please enter a domain name"
             /\ calls' = calls
             /\ loading' = loading
             /\ results' = results ]_vars

\* C1 witness: a blank that is not empty has been rejected while the result
\* of an earlier lookup is on the page, and the result is still there
C1_Witness ==
    /\ domain = <<32>>
    /\ error = "Please enter a domain name"
    /\ results # Null
    /\ ~loading

\* C2, in every state: an invocation that waits for its k-th query has made
\* exactly the first k of the 13 queryDNS calls, in order; the invocation
\* that stored the result made all 13; and the outer catch never ran.
C2_State ==
    /\ \A i \in Suspended :
          /\ calls[i].pc = Len(calls[i].sent)
          /\ calls[i].sent = SubSeq(ExpectedQueries(calls[i].cleanDomain,
                                                    calls[i].providerUrl),
                                    1, Len(calls[i].sent))
    /\ stored # Null =>
          /\ stored.sent = ExpectedQueries(stored.cleanDomain, stored.providerUrl)
          /\ results # Null
    /\ error \in {"", "Please enter a domain name"}

\* C2, in every step: an invocation returns only when its 13th query has
\* settled, and it returns by storing its result and leaving error alone.
C2_Step ==
    \A i \in 1..Len(calls) :
        (i \in Suspended /\ calls'[i].pc > NQueries)
          => /\ Len(calls[i].sent) = 13
             /\ results' # Null
             /\ results'.domain = calls[i].cleanDomain
             /\ stored' # Null
             /\ stored'.sent = calls[i].sent
             /\ error' = error

\* C2: whatever subset of its queries fails, a lookup makes all 13 queryDNS
\* calls, each once and in the fixed order, and ends by storing a result
\* without setting an error.
C2_AllQueriesDespiteFailures == []C2_State /\ [][C2_Step]_vars

\* C2 witness: a lookup has stored its result although every standard query
\* failed and no query was answered with records
C2_Witness ==
    /\ stored # Null
    /\ stored.stdAllFailed
    /\ stored.answered = {}
    /\ results # Null
    /\ error = ""

\* 'v=spf1' occurs in data, whatever the case of its letters
ContainsSpfTag(data) ==
    \E off \in 0..(Len(data) - 6) :
        /\ data[off + 1] \in {86, 118}
        /\ data[off + 2] = 61
        /\ data[off + 3] \in {83, 115}
        /\ data[off + 4] \in {80, 112}
        /\ data[off + 5] \in {70, 102}
        /\ data[off + 6] = 49

\* sub is the subsequence of seq at the indices in keep, in their order
IsSelection(sub, seq, keep) ==
    /\ Len(sub) = Cardinality(keep)
    /\ \A n \in 1..Len(sub) :
          \E i \in keep : /\ Cardinality({j \in keep : j <= i}) = n
                          /\ sub[n] = seq[i]

\* C3: in every stored result, 'SPF (TXT)' is a key of emailSecurity if and
\* only if some record of the result's standard TXT entry contains 'v=spf1'
\* (in any letter case), and then it is the subsequence of those records in
\* their order; the lookup made no query beyond the 13.
C3_SpfIsFilteredTxt ==
    results # Null =>
        LET txt  == IF "TXT" \in DOMAIN results.usual THEN results.usual["TXT"] ELSE <<>>
            keep == {i \in 1..Len(txt) : ContainsSpfTag(txt[i].data)}
        IN  /\ ("SPF (TXT)" \in DOMAIN results.emailSecurity) <=> (keep # {})
            /\ keep # {} => IsSelection(results.emailSecurity["SPF (TXT)"], txt, keep)
            /\ Len(stored.sent) = 13

\* C3 witness: a result whose TXT entry has three records, of which the two
\* SPF records (one in capitals), and only they, are the SPF entry
C3_Witness ==
    /\ results # Null
    /\ "TXT" \in DOMAIN results.usual
    /\ Len(results.usual["TXT"]) = 3
    /\ "SPF (TXT)" \in DOMAIN results.emailSecurity
    /\ results.emailSecurity["SPF (TXT)"] =
          <<results.usual["TXT"][2], results.usual["TXT"][3]>>

\* the labels of the two mappings of a result
StandardLabels == {LabelOf(k) : k \in 1..Len(usual)}

ProbeLabels == {LabelOf(k) : k \in (Len(usual) + 1)..NQueries}

\* the entry a stored result has for the k-th query's label, <<>> if none
StoredEntry(k) ==
    LET map == IF k <= Len(usual) THEN results.usual ELSE results.emailSecurity
    IN  IF LabelOf(k) \in DOMAIN map THEN map[LabelOf(k)] ELSE <<>>

\* the records the resolver has for the k-th query the storing lookup sent
ResolverRecords(k) == ZoneData(stored.sent[k].name, stored.sent[k].type)

\* records with parseCAA applied to the data of each
Decoded(records) ==
    [n \in 1..Len(records) |-> [records[n] EXCEPT !.data = parseCAA(records[n].data)]]

\* C4 as claimed: in every stored result, the CAA entry of a lookup sent to
\* the cloudflare endpoint is the resolver's records with parseCAA applied to
\* the data, and every other entry (every entry of a lookup sent to the
\* google endpoint, every type other than CAA, every probe) is the resolver's
\* records unmodified.  The code does not satisfy it.
C4_DecodingFollowsEndpoint ==
    stored # Null =>
        \A k \in 1..NQueries :
            StoredEntry(k) # <<>> =>
                StoredEntry(k) =
                    IF LabelOf(k) = "CAA" /\ stored.providerUrl = PROVIDERS["cloudflare"]
                    THEN Decoded(ResolverRecords(k))
                    ELSE ResolverRecords(k)

\* C5 as claimed: when every standard query of the storing lookup failed,
\* both mappings of the stored result are empty.  The code does not satisfy
\* it.
C5_BothMappingsEmpty ==
    (stored # Null /\ stored.stdAllFailed) =>
        /\ results.usual = EmptyMap
        /\ results.emailSecurity = EmptyMap

\* C5 amended, in every state: when every standard query of the storing
\* lookup failed, the standard mapping is empty, there is no 'SPF (TXT)'
\* entry, and the email-security mapping holds exactly the probes that were
\* answered with at least one record, each with the resolver's records.
C5_State ==
    (stored # Null /\ stored.stdAllFailed) =>
        /\ results.usual = EmptyMap
        /\ "SPF (TXT)" \notin DOMAIN results.emailSecurity
        /\ DOMAIN results.emailSecurity = stored.answered
        /\ \A k \in (Len(usual) + 1)..NQueries :
              LabelOf(k) \in stored.answered => StoredEntry(k) = ResolverRecords(k)

\* C5 amended, in every step: the lookup that stores such a result leaves
\* error as it was.
C5_Step ==
    (stored' # Null /\ stored' # stored /\ stored'.stdAllFailed) => error' = error

\* C5 (amended): if all 7 standard queries fail, the stored result has an
\* empty standard mapping and an email-security mapping with exactly the
\* answered probes, and the lookup completes without setting an error.
C5_ProbesSurviveStandardFailure == []C5_State /\ [][C5_Step]_vars

\* C5 witness: every standard query failed, the DMARC probe was answered, and
\* its record is in the stored result
C5_Witness ==
    /\ stored # Null
    /\ stored.stdAllFailed
    /\ results.usual = EmptyMap
    /\ DOMAIN results.emailSecurity = {"_dmarc (TXT)"}
    /\ error = ""

\* the responses that carry no record: the failures and the two empty answers
NoRecordResponses ==
    {NetworkError, HttpError, BadJson, Json(FALSE, <<>>), Json(TRUE, <<>>)}

\* C6, in every state: the keys of the stored mappings are the labels whose
\* query was answered with at least one record, plus 'SPF (TXT)' exactly
\* when the answered TXT records include an SPF record; no entry is empty.
C6_State ==
    stored # Null =>
        /\ DOMAIN results.usual = stored.answered \cap StandardLabels
        /\ DOMAIN results.emailSecurity \ {"SPF (TXT)"} = stored.answered \cap ProbeLabels
        /\ ("SPF (TXT)" \in DOMAIN results.emailSecurity)
              <=> /\ "TXT" \in stored.answered
                  /\ \E n \in 1..Len(ResolverRecords(4)) :
                        ContainsSpfTag(ResolverRecords(4)[n].data)
        /\ \A l \in DOMAIN results.usual : results.usual[l] # <<>>
        /\ \A l \in DOMAIN results.emailSecurity : results.emailSecurity[l] # <<>>

\* C6, in every step: a query that settles without a record, by failing or
\* by an answer of zero records, adds no entry: the lookup's mappings stay
\* as they were (but for the SPF entry, drawn from the TXT entry after the
\* last standard query).
C6_Step ==
    \A i \in 1..Len(calls) : \A resp \in NoRecordResponses :
        (i \in Suspended /\ Resume(i, resp)) =>
            LET after == IF calls'[i].pc <= NQueries
                         THEN [usual |-> calls'[i].usualResults,
                               emailSecurity |-> calls'[i].emailSecurityResults]
                         ELSE [usual |-> results'.usual,
                               emailSecurity |-> results'.emailSecurity]
            IN  /\ after.usual = calls[i].usualResults
                /\ DOMAIN after.emailSecurity \ {"SPF (TXT)"}
                     = DOMAIN calls[i].emailSecurityResults \ {"SPF (TXT)"}
                /\ \A l \in DOMAIN calls[i].emailSecurityResults :
                      after.emailSecurity[l] = calls[i].emailSecurityResults[l]

\* C6: a label is a key of a stored mapping if and only if its query
\* succeeded with at least one record, no key maps to an empty sequence, and
\* zero answers leave the result as a failure does.
C6_KeysAreAnsweredLabels == []C6_State /\ [][C6_Step]_vars

\* C6 witness: a stored result with exactly the TXT, SPF and DMARC entries,
\* from a lookup whose other queries, the CAA query of a name with CAA
\* records among them, brought no record
C6_Witness ==
    /\ stored # Null
    /\ stored.cleanDomain = <<97>>
    /\ stored.answered = {"TXT", "_dmarc (TXT)"}
    /\ DOMAIN results.usual = {"TXT"}
    /\ DOMAIN results.emailSecurity = {"SPF (TXT)", "_dmarc (TXT)"}

\* d is not blank, does not end in white space and does not end in '/'
EndsInNameCharacter(d) ==
    /\ d # <<>>
    /\ ~IsWhiteSpace(d[Len(d)])
    /\ d[Len(d)] # 47

\* In the two-lookup scenario the first lookup (of d) has pushed history
\* entry 2 and the second (of "  " + uppercase(d) + "/ ") pushes entry 3.
\* The second lookup has the query subject of the first: while it runs, its
\* clean domain is the domain the first one echoed, and once it has stored
\* its result, the echoed domains are equal.
SecondLikeFirst ==
    /\ (Len(calls) = 2 /\ 2 \in Suspended) =>
          /\ Len(hist) = 2
          /\ calls[2].cleanDomain = hist[2].domain
    /\ Len(hist) = 3 =>
          /\ hist[3].domain = hist[2].domain
          /\ results # Null /\ results.domain = hist[2].domain

\* every running lookup queries the names of its clean domain, and every
\* stored result echoes the clean domain that was queried
SubjectIsQueriedAndEchoed ==
    /\ \A i \in Suspended :
          calls[i].sent = SubSeq(ExpectedQueries(calls[i].cleanDomain,
                                                 calls[i].providerUrl),
                                 1, Len(calls[i].sent))
    /\ stored # Null =>
          /\ results.domain = stored.cleanDomain
          /\ stored.sent[1].name = results.domain
          /\ hist[Len(hist)] = [kind |-> "lookup", domain |-> results.domain,
                                provider |-> hist[Len(hist)].provider]

\* C7 as claimed: for every domain d, the lookup of
\* "  " + uppercase(d) + "/ " has the query subject and the echoed domain of
\* the lookup of d.  The code does not satisfy it.
C7_WrappedLikePlainForAll == SecondLikeFirst /\ SubjectIsQueriedAndEchoed

\* C7 (amended): for every domain d of ASCII characters that is not blank
\* and ends neither in white space nor in '/', the lookup of
\* "  " + uppercase(d) + "/ " has the query subject, the queries and the
\* echoed domain of the lookup of d; the normalized string is the query name
\* and results.domain.
C7_WrappedLikePlain ==
    /\ EndsInNameCharacter(normIn) => SecondLikeFirst
    /\ SubjectIsQueriedAndEchoed

\* C7 witness: d is " HTTP://A" or the like (white space in front, a scheme
\* in capitals, a capital letter); both lookups have stored the same domain,
\* which is not d
C7_Witness ==
    /\ EndsInNameCharacter(normIn)
    /\ Len(normIn) > 7
    /\ \E n \in 1..Len(normIn) : normIn[n] = 65
    /\ Len(hist) = 3
    /\ results # Null
    /\ results.domain = hist[2].domain
    /\ results.domain # normIn
    /\ results.domain # <<>>

\* the argument is '\# <len> <hex>' and nothing else: the generic prefix,
\* then whole bytes in hex
IsGenericEncoding(arg) == arg.prefix = "generic" /\ arg.tail = <<>>

\* the text of bytes as String.fromCharCode gives it: one character per byte
AsciiText(bytes) == bytes

\* '<flags> <tag> "<value>"' for the bytes B: flags B[0] in decimal, the tag
\* of B[1] bytes, the value of the bytes after the tag
Readable(B) ==
    Decimal(B[1]) \o <<32>> \o AsciiText(SubSeq(B, 3, 2 + B[2]))
    \o <<32, 34>> \o AsciiText(SubSeq(B, 3 + B[2], Len(B))) \o <<34>>

\* C8: for every argument '\# <len> <hex>' whose bytes B have a tag length
\* B[1] >= 1 and at least one value byte after the tag, whatever the case of
\* the hex letters and the white space between the bytes, parseCAA returns
\* '<flags> <tag> "<value>"'.
C8_DecodesWellFormed ==
    (/\ caaOut # <<>>
     /\ IsGenericEncoding(caaIn)
     /\ Len(caaIn.bytes) >= 3
     /\ caaIn.bytes[2] >= 1
     /\ Len(caaIn.bytes) >= 3 + caaIn.bytes[2])
        => caaOut[1] = Readable(caaIn.bytes)

\* C8 witness: \# 17 00 05 69 73 73 75 65 74 65 73 74 63 61 2E 63 6F 6D, in
\* capitals and with white space between the bytes, gave
\* 0 issue "testca.com"
C8_Witness ==
    /\ caaIn # <<>>
    /\ caaIn.bytes = IssueBytes
    /\ caaIn.upper
    /\ caaIn.sep # <<>>
    /\ caaOut = << <<48, 32, 105, 115, 115, 117, 101, 32, 34, 116, 101, 115, 116, 99,
                     97, 46, 99, 111, 109, 34>> >>

\* C9 as claimed: with tag length 0 parseCAA returns the flags, an empty tag
\* and the quoted value of all bytes after the two header bytes; with no
\* byte after the tag it returns the flags, the tag and a quoted empty
\* string.  The code does not satisfy it.
C9_DecodesEmptyFields ==
    (/\ caaOut # <<>>
     /\ IsGenericEncoding(caaIn)
     /\ Len(caaIn.bytes) >= 2
     /\ Len(caaIn.bytes) >= 2 + caaIn.bytes[2]
     /\ caaIn.bytes[2] = 0 \/ Len(caaIn.bytes) = 2 + caaIn.bytes[2])
        => caaOut[1] = Readable(caaIn.bytes)

\* the argument is a well-formed generic encoding: '\# <len> <hex>' and
\* nothing else, with the two header bytes and at least the tag's bytes
IsWellFormed(arg) ==
    /\ IsGenericEncoding(arg)
    /\ Len(arg.bytes) >= 2
    /\ Len(arg.bytes) >= 2 + arg.bytes[2]

\* C10 as claimed: for every argument that is not a well-formed generic
\* encoding (no '\#' prefix, characters after the hex digits that are no hex
\* digits, an odd number of hex digits, a tag length larger than the bytes
\* that remain) parseCAA returns its argument.  The code does not satisfy it.
C10_MalformedUnchanged ==
    (caaOut # <<>> /\ ~IsWellFormed(caaIn)) => caaOut[1] = CAAText(caaIn)

\* every record of the stored result is one the resolver has for a query
\* the storing invocation itself sent (the data of a CAA record possibly
\* decoded), under that query's label
RecordsAreOwn ==
    stored # Null =>
        /\ results.domain = stored.cleanDomain
        /\ results.usual = stored.usualResults
        /\ results.emailSecurity = stored.emailSecurityResults
        /\ \A k \in 1..NQueries :
              StoredEntry(k) # <<>> =>
                  StoredEntry(k) \in {ResolverRecords(k), Decoded(ResolverRecords(k))}

\* Invocation 1 started first.  When it returns after invocation 2, which
\* started while invocation 1 was waiting for a query, has returned, it
\* leaves the stored result and the history as they are.
EarlierDoesNotOverwrite ==
    (/\ Len(calls) = 2
     /\ 1 \in Suspended
     /\ 2 \notin Suspended
     /\ calls'[1].pc > NQueries)
        => /\ results' = results
           /\ hist' = hist

\* C11 as claimed: of two overlapping invocations the later-started one
\* determines the stored result once both have settled, whichever finishes
\* last, and a stored result holds only records its own invocation fetched.
\* The code does not satisfy it.
C11_LaterInvocationWins == []RecordsAreOwn /\ [][EarlierDoesNotOverwrite]_vars

\* C12 as claimed: results.provider names the endpoint the storing lookup's
\* queries were sent to ('dns.google' iff google's, '1.1.1.1' iff
\* cloudflare's), and the history entry the lookup pushed records a provider
\* with that endpoint.  The code does not satisfy it.
C12_ProviderIsTheOneQueried ==
    stored # Null =>
        /\ results.provider = "dns.google"
              <=> \A k \in 1..NQueries : stored.sent[k].url = PROVIDERS["google"]
        /\ results.provider = "1.1.1.1"
              <=> \A k \in 1..NQueries : stored.sent[k].url = PROVIDERS["cloudflare"]
        /\ hist[Len(hist)].kind = "lookup"
        /\ hist[Len(hist)].domain = results.domain
        /\ ProviderEntry(hist[Len(hist)].provider) = stored.providerUrl

=============================================================================
